---- MODULE Spec2Model ----
(***************************************************************************)
(* A model of BowlingGame.cpp: the roll sequence, the frame segmentation   *)
(* (BowlingGame::processFrames with FrameFactory::createFrame) and the     *)
(* score calculation (BowlingGame::calculateScore with strikeBonus and     *)
(* spareBonus).  C++ indices are 0-based; rolls[j] of the code is          *)
(* At(rolls, j) here.                                                      *)
(***************************************************************************)
EXTENDS Integers, Sequences, FiniteSets, TLC

VARIABLES
    m_rolls,      \* BowlingGame::m_rolls
    m_frames,     \* BowlingGame::m_frames
    m_scores,     \* BowlingGame::m_scores
    totalSocre,   \* main's local: the value calculateScore last returned
    pc,           \* position of the caller: "input", "framed", "reframed", "scored"
    firstRollAt,  \* per frame, the value of processFrames' cursor i when r1 was read
    cursor,       \* the value of processFrames' cursor i when it returned
    rollIndexAt   \* per frame, calculateScore's rollIndex at the start of its iteration

vars == <<m_rolls, m_frames, m_scores, totalSocre, pc, firstRollAt, cursor, rollIndexAt>>

PINS == 10
FRAMES == 10
BASE_SCORE == 10

\* Bounds of the model.
RollValues == {0, 3, 4, 7, 10}
MaxRolls == 5
MaxLateRolls == 4

\* Conversions to the unsigned types of the code.
U8(x) == x % 256
U16(x) == x % 65536

\* m_rolls[j] with the 0-based index j of the code.
At(rolls, j) == rolls[j + 1]

----------------------------------------------------------------------------
(* Frames *)

isStrike(f) == f.roll1 = BASE_SCORE

isSpare(f) == f.roll1 + f.roll2 = BASE_SCORE /\ f.roll1 # BASE_SCORE

NormalFrame(r1, r2) == [kind |-> "Normal", roll1 |-> r1, roll2 |-> r2]

SpareFrame(r1) == [kind |-> "Spare", roll1 |-> r1, roll2 |-> U8(PINS - r1)]

StrikeFrame == [kind |-> "Strike", roll1 |-> PINS, roll2 |-> 0]

TenthFrame(r1, r2, r3) ==
    [kind |-> "Tenth", roll1 |-> r1, roll2 |-> r2, thirdRoll |-> r3,
     thirdRollAllowed |-> (r1 = PINS \/ isSpare([roll1 |-> r1, roll2 |-> r2]))]

score(f) ==
    CASE f.kind = "Normal" -> U16(f.roll1 + f.roll2)
      [] f.kind = "Spare"  -> BASE_SCORE
      [] f.kind = "Strike" -> BASE_SCORE
      [] f.kind = "Tenth"  -> U16(f.roll1 + f.roll2 + f.thirdRoll)

createFrame_strikeFirst(frameIndex, r1, r2, r3) ==
    IF r1 = BASE_SCORE THEN StrikeFrame
    ELSE IF frameIndex = FRAMES - 1 THEN TenthFrame(r1, r2, r3)
    ELSE IF r1 + r2 = BASE_SCORE THEN SpareFrame(r1)
    ELSE NormalFrame(r1, r2)

createFrame(frameIndex, r1, r2, r3) ==
    IF frameIndex = FRAMES - 1 THEN TenthFrame(r1, r2, r3)
    ELSE IF r1 = BASE_SCORE THEN StrikeFrame
    ELSE IF r1 + r2 = BASE_SCORE THEN SpareFrame(r1)
    ELSE NormalFrame(r1, r2)

----------------------------------------------------------------------------
(* processFrames.  A pass state st is [frames, firsts, i]: the frame list, *)
(* the cursor value at which each frame's first roll was read, and the     *)
(* cursor i.                                                               *)

clear_keep(v) == v

clear(v) == <<>>

\* One iteration of the loop over the first nine frames, with a second roll
\* read even after a strike.
NineStep_strikeTakesTwo(st, rolls) ==
    LET r1   == At(rolls, st.i)
        i1   == st.i + 1
        has2 == i1 < Len(rolls)
        r2   == IF has2 THEN At(rolls, i1) ELSE 0
        i2   == IF has2 THEN i1 + 1 ELSE i1
    IN  [frames |-> Append(st.frames, createFrame(U8(Len(st.frames)), r1, r2, 0)),
         firsts |-> Append(st.firsts, st.i),
         i      |-> i2]

\* One iteration of the loop, with a frame whose second roll is missing
\* left out of the list.
NineStep_dropIncomplete(st, rolls) ==
    LET r1   == At(rolls, st.i)
        i1   == st.i + 1
        has2 == r1 # PINS /\ i1 < Len(rolls)
        r2   == IF has2 THEN At(rolls, i1) ELSE 0
        i2   == IF has2 THEN i1 + 1 ELSE i1
    IN  IF r1 # PINS /\ ~has2
        THEN [st EXCEPT !.i = i2]
        ELSE [frames |-> Append(st.frames, createFrame(U8(Len(st.frames)), r1, r2, 0)),
              firsts |-> Append(st.firsts, st.i),
              i      |-> i2]

\* One iteration of `while (m_frames.size() < FRAMES - 1 && i < m_rolls.size())`.
NineStep(st, rolls) ==
    LET r1   == At(rolls, st.i)
        i1   == st.i + 1
        has2 == r1 # PINS /\ i1 < Len(rolls)
        r2   == IF has2 THEN At(rolls, i1) ELSE 0
        i2   == IF has2 THEN i1 + 1 ELSE i1
    IN  [frames |-> Append(st.frames, createFrame(U8(Len(st.frames)), r1, r2, 0)),
         firsts |-> Append(st.firsts, st.i),
         i      |-> i2]

RECURSIVE FirstNine(_, _)
FirstNine(st, rolls) ==
    IF Len(st.frames) < FRAMES - 1 /\ st.i < Len(rolls)
    THEN FirstNine(NineStep(st, rolls), rolls)
    ELSE st

\* The tenth frame, with the third roll read whenever one is recorded.
TenthStep_alwaysThird(st, rolls) ==
    IF st.i < Len(rolls)
    THEN LET r1   == At(rolls, st.i)
             i1   == st.i + 1
             has2 == i1 < Len(rolls)
             r2   == IF has2 THEN At(rolls, i1) ELSE 0
             i2   == IF has2 THEN i1 + 1 ELSE i1
             has3 == i2 < Len(rolls)
             r3   == IF has3 THEN At(rolls, i2) ELSE 0
             i3   == IF has3 THEN i2 + 1 ELSE i2
         IN  [frames |-> Append(st.frames, createFrame(FRAMES - 1, r1, r2, r3)),
              firsts |-> Append(st.firsts, st.i),
              i      |-> i3]
    ELSE st

\* The `if (i < m_rolls.size())` block after the loop.
TenthStep(st, rolls) ==
    IF st.i < Len(rolls)
    THEN LET r1   == At(rolls, st.i)
             i1   == st.i + 1
             has2 == i1 < Len(rolls)
             r2   == IF has2 THEN At(rolls, i1) ELSE 0
             i2   == IF has2 THEN i1 + 1 ELSE i1
             has3 == i2 < Len(rolls) /\ (r1 = PINS \/ r1 + r2 = PINS)
             r3   == IF has3 THEN At(rolls, i2) ELSE 0
             i3   == IF has3 THEN i2 + 1 ELSE i2
         IN  [frames |-> Append(st.frames, createFrame(FRAMES - 1, r1, r2, r3)),
              firsts |-> Append(st.firsts, st.i),
              i      |-> i3]
    ELSE st

\* The whole of processFrames, started on the frame list `frames`.
processFrames(frames, rolls) ==
    TenthStep(FirstNine([frames |-> clear(frames), firsts |-> <<>>, i |-> 0], rolls), rolls)

----------------------------------------------------------------------------
(* calculateScore *)

strikeBonus_oneRoll(rolls, index) ==
    IF index + 1 < Len(rolls) THEN At(rolls, index + 1) ELSE 0

strikeBonus(rolls, index) ==
    IF index + 1 < Len(rolls)
    THEN IF index + 2 < Len(rolls)
         THEN U8(At(rolls, index + 1) + At(rolls, index + 2))
         ELSE At(rolls, index + 1)
    ELSE 0

spareBonus_secondRoll(rolls, index) ==
    IF index + 1 < Len(rolls) THEN At(rolls, index + 1) ELSE 0

spareBonus(rolls, index) ==
    IF index + 2 < Len(rolls) THEN At(rolls, index + 2) ELSE 0

\* The bonus of the frame at 0-based position i, with the tenth frame
\* treated like the others.
bonus_tenthToo(i, f, rolls, rollIndex) ==
    IF isStrike(f) THEN strikeBonus(rolls, rollIndex)
    ELSE IF isSpare(f) THEN spareBonus(rolls, rollIndex)
    ELSE 0

\* The bonus calculateScore adds to the frame at 0-based position i.
bonus(i, f, rolls, rollIndex) ==
    IF i < FRAMES - 1
    THEN IF isStrike(f) THEN strikeBonus(rolls, rollIndex)
         ELSE IF isSpare(f) THEN spareBonus(rolls, rollIndex)
         ELSE 0
    ELSE 0

advance_two(f) == 2

\* `rollIndex += m_frames[i]->isStrike() ? 1 : 2`
advance(f) == IF isStrike(f) THEN 1 ELSE 2

\* One iteration of the loop, with the frame's own score stored in m_scores.
ScoreStep_pushFrameScore(st, frames, rolls) ==
    LET f          == frames[st.i + 1]
        frameScore == score(f) + bonus(st.i, f, rolls, st.rollIndex)
        total      == st.totalScore + frameScore
    IN  [i          |-> st.i + 1,
         totalScore |-> total,
         rollIndex  |-> st.rollIndex + advance(f),
         scores     |-> Append(st.scores, U16(frameScore)),
         indexAt    |-> Append(st.indexAt, st.rollIndex)]

\* One iteration of `for (size_t i = 0; i < m_frames.size(); i++)`.
ScoreStep(st, frames, rolls) ==
    LET f          == frames[st.i + 1]
        frameScore == score(f) + bonus(st.i, f, rolls, st.rollIndex)
        total      == st.totalScore + frameScore
    IN  [i          |-> st.i + 1,
         totalScore |-> total,
         rollIndex  |-> st.rollIndex + advance(f),
         scores     |-> Append(st.scores, U16(total)),
         indexAt    |-> Append(st.indexAt, st.rollIndex)]

RECURSIVE ScoreLoop(_, _, _)
ScoreLoop(st, frames, rolls) ==
    IF st.i < Len(frames)
    THEN ScoreLoop(ScoreStep(st, frames, rolls), frames, rolls)
    ELSE st

\* The whole of calculateScore, started on the score list `scores`.
calculateScore(scores, frames, rolls) ==
    ScoreLoop([i |-> 0, totalScore |-> 0, rollIndex |-> 0,
               scores |-> clear(scores), indexAt |-> <<>>], frames, rolls)

----------------------------------------------------------------------------
(* The game object and its caller *)

Init ==
    /\ m_rolls = <<>>
    /\ m_frames = <<>>
    /\ m_scores = <<>>
    /\ totalSocre = 0
    /\ pc = "input"
    /\ firstRollAt = <<>>
    /\ cursor = 0
    /\ rollIndexAt = <<>>

\* BowlingGame::roll
roll(pins) ==
    /\ pc \in {"input", "scored"}
    /\ m_rolls' = Append(m_rolls, U8(pins))
    /\ pc' = "input"
    /\ UNCHANGED <<m_frames, m_scores, totalSocre, firstRollAt, cursor, rollIndexAt>>

Roll == \E pins \in RollValues : Len(m_rolls) < MaxRolls /\ roll(pins)

\* game.processFrames()
ProcessFrames ==
    /\ pc \in {"input", "scored"}
    /\ LET st == processFrames(m_frames, m_rolls)
       IN  /\ m_frames' = st.frames
           /\ firstRollAt' = st.firsts
           /\ cursor' = st.i
    /\ pc' = IF pc = "scored" THEN "reframed" ELSE "framed"
    /\ UNCHANGED <<m_rolls, m_scores, totalSocre, rollIndexAt>>

\* int totalSocre = game.calculateScore()
CalculateScore ==
    /\ pc \in {"framed", "reframed"}
    /\ LET st == calculateScore(m_scores, m_frames, m_rolls)
       IN  /\ m_scores' = st.scores
           /\ totalSocre' = st.totalScore
           /\ rollIndexAt' = st.indexAt
    /\ pc' = "scored"
    /\ UNCHANGED <<m_rolls, m_frames, firstRollAt, cursor>>

Next == Roll \/ ProcessFrames \/ CalculateScore

Spec == Init /\ [][Next]_vars

----------------------------------------------------------------------------
(* A game in its late frames.  Openings are games in which roll() has been *)
(* called for the first eight or nine frames and no pass has run yet; each *)
(* is reached from Init by roll() calls alone.  No opening is a prefix of  *)
(* another.                                                                *)

Openings ==
    { <<10, 10, 10, 10, 10, 10, 10, 10>>,
      <<3, 7, 10, 3, 4, 0, 10, 7, 7, 10, 7, 3, 0, 0>>,
      <<10, 10, 10, 10, 10, 10, 10, 3, 7, 10>> }

IsPrefix(s, t) == Len(s) <= Len(t) /\ SubSeq(t, 1, Len(s)) = s

OpeningOf(rolls) == CHOOSE o \in Openings : IsPrefix(o, rolls)

InitLate ==
    /\ m_rolls \in Openings
    /\ m_frames = <<>>
    /\ m_scores = <<>>
    /\ totalSocre = 0
    /\ pc = "input"
    /\ firstRollAt = <<>>
    /\ cursor = 0
    /\ rollIndexAt = <<>>

RollLate ==
    \E pins \in RollValues :
        /\ Len(m_rolls) < Len(OpeningOf(m_rolls)) + MaxLateRolls
        /\ roll(pins)

NextLate == RollLate \/ ProcessFrames \/ CalculateScore

SpecLate == InitLate /\ [][NextLate]_vars

----------------------------------------------------------------------------
(* Scripted games: the rolls main() feeds to the game, and twelve strikes. *)

ExampleRolls == <<1, 4, 4, 5, 6, 4, 5, 5, 10, 0, 1, 7, 3, 6, 4, 10, 2, 8, 6>>

PerfectRolls == <<10, 10, 10, 10, 10, 10, 10, 10, 10, 10, 10, 10>>

Scripts == {ExampleRolls, PerfectRolls}

RollScript ==
    \E s \in Scripts :
        /\ Len(m_rolls) < Len(s)
        /\ IsPrefix(m_rolls, s)
        /\ roll(s[Len(m_rolls) + 1])

NextScript == RollScript \/ ProcessFrames \/ CalculateScore

SpecScript == Init /\ [][NextScript]_vars

----------------------------------------------------------------------------
(* Vocabulary of the properties *)

\* The raw roll at 0-based index j, 0 when it is not recorded.
RollOrZero(j) == IF j < Len(m_rolls) THEN At(m_rolls, j) ELSE 0

\* What frame k (1-based) added to the running total.
Added(k) == m_scores[k] - (IF k = 1 THEN 0 ELSE m_scores[k - 1])

\* The number of raw rolls processFrames consumed for frame k (1-based).
Used(k) == (IF k < Len(m_frames) THEN firstRollAt[k + 1] ELSE cursor) - firstRollAt[k]

\* The raw rolls processFrames consumed for frame k.
Raw1(k) == At(m_rolls, firstRollAt[k])
Raw2(k) == IF Used(k) >= 2 THEN At(m_rolls, firstRollAt[k] + 1) ELSE 0
Raw3(k) == IF Used(k) >= 3 THEN At(m_rolls, firstRollAt[k] + 2) ELSE 0

\* A pass by a fresh game holding the rolls `rolls`.
FreshFrames(rolls) == processFrames(<<>>, rolls)
FreshScores(rolls) == calculateScore(<<>>, FreshFrames(rolls).frames, rolls)

----------------------------------------------------------------------------
(* C1: after a pass, every frame at positions 1-9 has added to the running *)
(* total: 10 plus the next two raw rolls after the strike roll if it is a  *)
(* Strike, 10 plus the raw roll after its second roll if it is a Spare,    *)
(* roll1 + roll2 if it is Normal; a bonus roll not yet recorded counts 0.  *)
C1_FrameContribution ==
    pc = "scored" =>
        \A k \in 1..Len(m_frames) :
            k <= FRAMES - 1 =>
                LET f == m_frames[k]
                    s == firstRollAt[k]
                IN  /\ f.kind \in {"Strike", "Spare", "Normal"}
                    /\ f.kind = "Strike" =>
                           Added(k) = 10 + RollOrZero(s + 1) + RollOrZero(s + 2)
                    /\ f.kind = "Spare" =>
                           Added(k) = 10 + RollOrZero(s + 2)
                    /\ f.kind = "Normal" =>
                           /\ Added(k) = f.roll1 + f.roll2
                           /\ Added(k) = Raw1(k) + Raw2(k)

\* A scored game with a Normal frame, a Spare whose bonus roll is recorded
\* and a Strike of which only the first bonus roll is recorded.
C1_Witness ==
    /\ pc = "scored"
    /\ \E k \in 1..Len(m_frames) : k <= FRAMES - 1 /\ m_frames[k].kind = "Normal"
    /\ \E k \in 1..Len(m_frames) :
           /\ k <= FRAMES - 1
           /\ m_frames[k].kind = "Spare"
           /\ RollOrZero(firstRollAt[k] + 2) > 0
    /\ \E k \in 1..Len(m_frames) :
           /\ k <= FRAMES - 1
           /\ m_frames[k].kind = "Strike"
           /\ firstRollAt[k] + 2 = Len(m_rolls)
           /\ RollOrZero(firstRollAt[k] + 1) > 0

(* C2: the tenth frame adds exactly roll1 + roll2 + roll3 to the total,    *)
(* roll3 counting 0 when absent, and no strike or spare bonus; a tenth     *)
(* frame of 10, 4, 3 adds exactly 17.                                      *)
C2_TenthContribution ==
    (pc = "scored" /\ Len(m_frames) = FRAMES) =>
        LET f == m_frames[FRAMES]
        IN  /\ Added(FRAMES) = f.roll1 + f.roll2 + f.thirdRoll
            /\ Added(FRAMES) = Raw1(FRAMES) + Raw2(FRAMES) + Raw3(FRAMES)
            /\ Added(FRAMES) = totalSocre - m_scores[FRAMES - 1]
            /\ (Raw1(FRAMES) = 10 /\ Raw2(FRAMES) = 4 /\ Raw3(FRAMES) = 3
                   /\ Used(FRAMES) = 3) => Added(FRAMES) = 17

\* A scored game whose tenth frame is 10, 4, 3.
C2_Witness ==
    /\ pc = "scored"
    /\ Len(m_frames) = FRAMES
    /\ Used(FRAMES) = 3
    /\ <<Raw1(FRAMES), Raw2(FRAMES), Raw3(FRAMES)>> = <<10, 4, 3>>

C4_ExampleFrames ==
    (m_rolls = ExampleRolls /\ pc \in {"framed", "reframed", "scored"}) =>
        /\ Len(m_frames) = 10
        /\ m_frames[9].kind = "Strike"
        /\ m_frames[10].kind = "Tenth"
        /\ <<m_frames[10].roll1, m_frames[10].roll2, m_frames[10].thirdRoll>> = <<2, 8, 6>>

\* The rolls of main(), segmented.
C4_Witness ==
    /\ m_rolls = ExampleRolls
    /\ pc = "framed"
    /\ Len(m_frames) = 10
    /\ firstRollAt[10] = 16

\* C4 as stated: the tenth frame of the example holds the rolls 10, 2, 8.
C4_AsStated ==
    (m_rolls = ExampleRolls /\ pc \in {"framed", "reframed", "scored"}) =>
        /\ Len(m_frames) = 10
        /\ m_frames[9].kind = "Strike"
        /\ <<m_frames[10].roll1, m_frames[10].roll2, m_frames[10].thirdRoll>> = <<10, 2, 8>>

(* C5: twelve rolls of 10 yield exactly 10 frames, the ScoreBoard          *)
(* 30, 60, ..., 300 and a returned total of 300.                           *)
C5_PerfectGame ==
    (m_rolls = PerfectRolls /\ pc = "scored") =>
        /\ Len(m_frames) = 10
        /\ m_scores = [k \in 1..10 |-> 30 * k]
        /\ totalSocre = 300

\* Twelve strikes, scored.
C5_Witness == m_rolls = PerfectRolls /\ pc = "scored" /\ Len(m_scores) = 10

(* C6: the result of a pass depends only on the roll sequence: it equals   *)
(* the pass of a fresh game holding the same rolls, and a second pass on   *)
(* an unmodified roll sequence leaves frames, ScoreBoard and total as they *)
(* were.                                                                   *)
C6_RecomputedInFull ==
    /\ [](pc \in {"framed", "reframed", "scored"} =>
              m_frames = FreshFrames(m_rolls).frames)
    /\ [](pc = "scored" =>
              /\ m_scores = FreshScores(m_rolls).scores
              /\ totalSocre = FreshScores(m_rolls).totalScore)
    /\ [][/\ (pc = "scored" /\ pc' = "reframed") => m_frames' = m_frames
          /\ (pc = "reframed" /\ pc' = "scored") =>
                 (m_scores' = m_scores /\ totalSocre' = totalSocre)]_vars

\* A second pass running on an unmodified roll sequence of several frames.
C6_Witness ==
    /\ pc = "reframed"
    /\ Len(m_frames) >= 2
    /\ Len(m_scores) = Len(m_frames)
    /\ totalSocre > 0

(* C7: a frame is the Tenth variant iff it is at position 10; at positions *)
(* 1-9 it is a Strike iff roll1 = 10, otherwise a Spare iff                *)
(* roll1 + roll2 = 10, otherwise Normal.                                   *)
C7_Classification ==
    \A k \in 1..Len(m_frames) :
        LET f == m_frames[k]
        IN  /\ f.kind = "Tenth" <=> k = FRAMES
            /\ f.roll1 = Raw1(k)
            /\ f.roll2 = Raw2(k)
            /\ k < FRAMES =>
                   f.kind = IF f.roll1 = 10 THEN "Strike"
                            ELSE IF f.roll1 + f.roll2 = 10 THEN "Spare"
                            ELSE "Normal"

\* A frame list with a Strike, a Spare and a Normal frame before a tenth
\* frame that opens with a strike.
C7_Witness ==
    /\ Len(m_frames) = FRAMES
    /\ m_frames[FRAMES].roll1 = 10
    /\ \A kind \in {"Strike", "Spare", "Normal"} :
           \E k \in 1..(FRAMES - 1) : m_frames[k].kind = kind

(* C8: processFrames yields at most 10 frames; the tenth frame consumes at *)
(* most three rolls, and a third only when roll1 = 10 or                   *)
(* roll1 + roll2 = 10; rolls recorded after the tenth frame's last         *)
(* consumed roll change neither the frames nor the ScoreBoard nor the      *)
(* total.                                                                  *)
C8_TenthBound ==
    /\ Len(m_frames) <= FRAMES
    /\ Len(m_frames) = FRAMES =>
           /\ Used(FRAMES) <= 3
           /\ Used(FRAMES) = 3 =>
                  (Raw1(FRAMES) = 10 \/ Raw1(FRAMES) + Raw2(FRAMES) = 10)
    /\ (pc = "scored" /\ Len(m_frames) = FRAMES) =>
           LET consumed == SubSeq(m_rolls, 1, cursor)
           IN  /\ m_frames = FreshFrames(consumed).frames
               /\ m_scores = FreshScores(consumed).scores
               /\ totalSocre = FreshScores(consumed).totalScore

\* A scored game in which a roll is recorded after an open tenth frame.
C8_Witness ==
    /\ pc = "scored"
    /\ Len(m_frames) = FRAMES
    /\ Used(FRAMES) = 2
    /\ cursor < Len(m_rolls)
    /\ At(m_rolls, cursor) > 0

(* C9: at the start of calculateScore's iteration for each frame,          *)
(* rollIndex is the index of the raw roll processFrames consumed as that   *)
(* frame's first roll, also when the final frame consumed only one roll.   *)
C9_RollIndex ==
    pc = "scored" =>
        /\ Len(rollIndexAt) = Len(m_frames)
        /\ \A k \in 1..Len(m_frames) : rollIndexAt[k] = firstRollAt[k]

\* A scored game with a strike, a two-roll frame and a final frame before
\* the tenth that consumed a single non-strike roll.
C9_Witness ==
    /\ pc = "scored"
    /\ Len(m_frames) = FRAMES - 1
    /\ Used(FRAMES - 1) = 1
    /\ m_frames[FRAMES - 1].kind = "Normal"
    /\ \E k \in 1..Len(m_frames) : m_frames[k].kind = "Strike"
    /\ \E k \in 1..Len(m_frames) : Used(k) = 2

(* C10: with rolls appended and the pass re-run, results never regress:    *)
(* the number of frames, every existing ScoreBoard entry and the total     *)
(* never decrease, the ScoreBoard has one entry per frame, and the total   *)
(* is the last ScoreBoard entry (0 when there is none).                    *)
C10_NoRegress ==
    [][/\ pc' \in {"framed", "reframed"} => Len(m_frames') >= Len(m_frames)
       /\ (pc \in {"framed", "reframed"} /\ pc' = "scored") =>
              /\ Len(m_scores') >= Len(m_scores)
              /\ \A k \in 1..Len(m_scores) : m_scores'[k] >= m_scores[k]
              /\ totalSocre' >= totalSocre
              /\ Len(m_scores') = Len(m_frames')
              /\ totalSocre' = IF m_scores' = <<>> THEN 0
                               ELSE m_scores'[Len(m_scores')]]_vars

\* A pass under way after more rolls were appended to a scored game: a new
\* frame is to be scored and an existing entry is about to grow.
C10_Witness ==
    /\ pc = "framed"
    /\ Len(m_scores) >= 1
    /\ Len(m_frames) > Len(m_scores)
    /\ FreshScores(m_rolls).scores[1] > m_scores[1]

====
